---- MODULE Spec2Model ----
(***************************************************************************)
(* Model of generators/elasticsearch/es2gen/bridgeutil.go: the scalar      *)
(* extractor, the field resolver and the four filter builders.             *)
(*                                                                         *)
(* Go strings are sequences of one-character strings, so that splitting,   *)
(* concatenation, formatting and parsing are computed rather than assumed. *)
(* A Go interface{} value is a record [t, s, n, e]: t is the dynamic type, *)
(* s the string payload, n an integer (or a float's decimal mantissa) and  *)
(* e the number of decimal places of a float (the float is n / 10^e).      *)
(***************************************************************************)
EXTENDS Integers, Sequences, FiniteSets, TLC

VARIABLES pc, call, ret, lookups

vars == <<pc, call, ret, lookups>>

(***************************************************************************)
(* Bounds of the input domains.                                            *)
(***************************************************************************)
MaxStrLen == 2
MaxNum == 2
MaxDec == 1
MaxTextLen == 3
MaxKeyLen == 1

(***************************************************************************)
(* Strings.                                                                *)
(***************************************************************************)
SeqsUpTo(A, n) == UNION {[1..k -> A] : k \in 0..n}

Digits == <<"0", "1", "2", "3", "4", "5", "6", "7", "8", "9">>

IsDigit(c) == \E d \in 1..10 : Digits[d] = c

DigitVal(c) == (CHOOSE d \in 1..10 : Digits[d] = c) - 1

RECURSIVE FormatNat(_)
FormatNat(n) ==
    IF n < 10 THEN <<Digits[n + 1]>>
    ELSE FormatNat(n \div 10) \o <<Digits[(n % 10) + 1]>>

\* strconv.FormatInt(i, 10)
FormatInt(i) == IF i < 0 THEN <<"-">> \o FormatNat(0 - i) ELSE FormatNat(i)

RECURSIVE NatOf(_)
NatOf(s) ==
    IF s = <<>> THEN 0
    ELSE NatOf(SubSeq(s, 1, Len(s) - 1)) * 10 + DigitVal(s[Len(s)])

(***************************************************************************)
(* interface{} values.                                                     *)
(***************************************************************************)
StrVal(s) == [t |-> "string", s |-> s, n |-> 0, e |-> 0]
IntVal(i) == [t |-> "int64", s |-> <<>>, n |-> i, e |-> 0]
NilVal == [t |-> "nil", s |-> <<>>, n |-> 0, e |-> 0]

RECURSIVE FloatVal(_, _)
\* a float64 n / 10^e, in lowest decimal form
FloatVal(m, e) ==
    IF e > 0 /\ m % 10 = 0 THEN FloatVal(m \div 10, e - 1)
    ELSE [t |-> "float64", s |-> <<>>, n |-> m, e |-> e]

\* strconv.ParseFloat(s, 64) on decimal text: an optional sign, digits with
\* at most one '.', at least one digit. (The input alphabets below contain no
\* exponent, hexadecimal, "inf" or "nan" spelling.)
ParseFloat(s) ==
    LET signed == Len(s) > 0 /\ s[1] \in {"-", "+"}
        body == IF signed THEN SubSeq(s, 2, Len(s)) ELSE s
        dots == {i \in 1..Len(body) : body[i] = "."}
        wellformed == /\ Cardinality(dots) <= 1
                      /\ \A i \in 1..Len(body) : i \in dots \/ IsDigit(body[i])
                      /\ Len(body) > Cardinality(dots)
        dot == IF dots = {} THEN Len(body) + 1 ELSE CHOOSE i \in dots : TRUE
        intpart == SubSeq(body, 1, dot - 1)
        fracpart == SubSeq(body, dot + 1, Len(body))
        mant == NatOf(intpart \o fracpart)
    IN  IF wellformed
        THEN [f |-> FloatVal(IF signed /\ s[1] = "-" THEN 0 - mant ELSE mant,
                             Len(fracpart)),
              err |-> FALSE]
        ELSE [f |-> FloatVal(0, 0), err |-> TRUE]

BoolLiterals ==
    { <<"1">>, <<"t">>, <<"T">>, <<"T", "R", "U", "E">>, <<"t", "r", "u", "e">>,
      <<"T", "r", "u", "e">>,
      <<"0">>, <<"f">>, <<"F">>, <<"F", "A", "L", "S", "E">>,
      <<"f", "a", "l", "s", "e">>, <<"F", "a", "l", "s", "e">> }

\* strconv.ParseBool(s): err is FALSE when the returned error is nil
ParseBool(s) == [err |-> s \notin BoolLiterals]

(***************************************************************************)
(* Expression nodes (expr.Node).  kind is the dynamic type of the node.    *)
(***************************************************************************)
NoValue ==
    [Type |-> "NilType", b |-> FALSE, i |-> 0, s |-> <<>>,
     f |-> FloatVal(0, 0), floatval |-> FALSE]

BoolValue(b) == [NoValue EXCEPT !.Type = "BoolType", !.b = b]
IntValue(i) == [NoValue EXCEPT !.Type = "IntType", !.i = i]
StringValue(s) == [NoValue EXCEPT !.Type = "StringType", !.s = s]
TimeValue(ms) == [NoValue EXCEPT !.Type = "TimeType", !.i = ms]
NumberValue(f, hasFloat) ==
    [NoValue EXCEPT !.Type = "NumberType", !.f = f, !.floatval = hasFloat]
OtherValue(ty) == [NoValue EXCEPT !.Type = ty]

NoNode ==
    [kind |-> "nil", Text |-> <<>>, original |-> <<>>, left |-> FALSE,
     IsInt |-> FALSE, Int64 |-> 0, Float64 |-> FloatVal(0, 0), Value |-> NoValue]

StringNode(text) == [NoNode EXCEPT !.kind = "StringNode", !.Text = text]
NumberNode(isInt, i, f) ==
    [NoNode EXCEPT !.kind = "NumberNode", !.IsInt = isInt, !.Int64 = i, !.Float64 = f]
ValueNode(v) == [NoNode EXCEPT !.kind = "ValueNode", !.Value = v]
IdentityNode(text, orig, lr) ==
    [NoNode EXCEPT !.kind = "IdentityNode", !.Text = text, !.original = orig,
                   !.left = lr]
OtherNode(kind) == [NoNode EXCEPT !.kind = kind]

\* (*expr.ValueNode).String(): the canonical rendering of the wrapped value
String(n) ==
    CASE n.Value.Type = "BoolType" ->
            IF n.Value.b THEN <<"t", "r", "u", "e">> ELSE <<"f", "a", "l", "s", "e">>
      [] n.Value.Type = "IntType" -> FormatInt(n.Value.i)
      [] n.Value.Type = "TimeType" -> FormatInt(n.Value.i)
      [] n.Value.Type = "StringType" -> n.Value.s
      [] OTHER -> <<>>

HasLeftRight(ident) == ident.left

OriginalText(ident) == ident.original

(***************************************************************************)
(* scalar                                                                  *)
(***************************************************************************)
\* scalar rendering every value that is not numeric, Null included
scalar_AnyValue(node) ==
    CASE node.kind = "StringNode" -> [val |-> StrVal(node.Text), ok |-> TRUE]
      [] node.kind = "NumberNode" ->
            IF node.IsInt THEN [val |-> IntVal(node.Int64), ok |-> TRUE]
            ELSE [val |-> node.Float64, ok |-> TRUE]
      [] node.kind = "ValueNode" ->
            IF node.Value.Type # "NumberType"
            THEN [val |-> StrVal(String(node)), ok |-> TRUE]
            ELSE IF node.Value.Type = "NumberType"
            THEN IF ~node.Value.floatval
                 THEN [val |-> NilVal, ok |-> FALSE]
                 ELSE [val |-> node.Value.f, ok |-> TRUE]
            ELSE [val |-> StrVal(<<>>), ok |-> FALSE]
      [] node.kind = "IdentityNode" ->
            IF ~ParseBool(node.Text).err
            THEN [val |-> StrVal(node.Text), ok |-> TRUE]
            ELSE [val |-> StrVal(<<>>), ok |-> FALSE]
      [] OTHER -> [val |-> StrVal(<<>>), ok |-> FALSE]

\* scalar accepting only the identifiers true and false
scalar_TrueFalseOnly(node) ==
    CASE node.kind = "StringNode" -> [val |-> StrVal(node.Text), ok |-> TRUE]
      [] node.kind = "NumberNode" ->
            IF node.IsInt THEN [val |-> IntVal(node.Int64), ok |-> TRUE]
            ELSE [val |-> node.Float64, ok |-> TRUE]
      [] node.kind = "ValueNode" ->
            IF node.Value.Type \in {"BoolType", "IntType", "StringType", "TimeType"}
            THEN [val |-> StrVal(String(node)), ok |-> TRUE]
            ELSE IF node.Value.Type = "NumberType"
            THEN IF ~node.Value.floatval
                 THEN [val |-> NilVal, ok |-> FALSE]
                 ELSE [val |-> node.Value.f, ok |-> TRUE]
            ELSE [val |-> StrVal(<<>>), ok |-> FALSE]
      [] node.kind = "IdentityNode" ->
            IF node.Text \in {<<"t", "r", "u", "e">>, <<"f", "a", "l", "s", "e">>}
            THEN [val |-> StrVal(node.Text), ok |-> TRUE]
            ELSE [val |-> StrVal(<<>>), ok |-> FALSE]
      [] OTHER -> [val |-> StrVal(<<>>), ok |-> FALSE]

scalar(node) ==
    CASE node.kind = "StringNode" -> [val |-> StrVal(node.Text), ok |-> TRUE]
      [] node.kind = "NumberNode" ->
            IF node.IsInt THEN [val |-> IntVal(node.Int64), ok |-> TRUE]
            ELSE [val |-> node.Float64, ok |-> TRUE]
      [] node.kind = "ValueNode" ->
            IF node.Value.Type \in {"BoolType", "IntType", "StringType", "TimeType"}
            THEN [val |-> StrVal(String(node)), ok |-> TRUE]
            ELSE IF node.Value.Type = "NumberType"
            THEN IF ~node.Value.floatval
                 THEN [val |-> NilVal, ok |-> FALSE]
                 ELSE [val |-> node.Value.f, ok |-> TRUE]
            ELSE [val |-> StrVal(<<>>), ok |-> FALSE]
      [] node.kind = "IdentityNode" ->
            IF ~ParseBool(node.Text).err
            THEN [val |-> StrVal(node.Text), ok |-> TRUE]
            ELSE [val |-> StrVal(<<>>), ok |-> FALSE]
      [] OTHER -> [val |-> StrVal(<<>>), ok |-> FALSE]

(***************************************************************************)
(* Field descriptors (gentypes.FieldType) and the field mapper.            *)
(***************************************************************************)
FieldType(field, path, ty) == [Field |-> field, Path |-> path, Type |-> ty]

NoField == FieldType(<<>>, <<>>, "nil")

Nested(lhs) == lhs.Path # <<>>

Numeric(lhs) == lhs.Type \in {"IntType", "NumberType"}

\* the sub-field of a nested document that stores values of this kind, and
\* the value as stored there
ValueAndPrefix(val) ==
    CASE val.t = "int64" -> <<val, <<"i">>>>
      [] val.t = "float64" -> <<val, <<"f">>>>
      [] val.t = "string" /\ ~ParseFloat(val.s).err -> <<ParseFloat(val.s).f, <<"f">>>>
      [] OTHER -> <<val, <<"s">>>>

TypePrefix(lhs) ==
    CASE lhs.Type = "IntType" -> <<"i">>
      [] lhs.Type = "NumberType" -> <<"f">>
      [] OTHER -> <<"s">>

PrefixAndValue(lhs, val) ==
    IF lhs.Type = "MapValueType"
    THEN <<lhs.Path \o <<".">> \o ValueAndPrefix(val)[2], ValueAndPrefix(val)[1]>>
    ELSE <<lhs.Path \o <<".">> \o TypePrefix(lhs), val>>

PathAndPrefix(lhs, pattern) ==
    IF lhs.Type = "MapValueType"
    THEN lhs.Path \o <<".">> \o ValueAndPrefix(StrVal(pattern))[2]
    ELSE lhs.Path \o <<".">> \o TypePrefix(lhs)

\* FieldMapper.Map: a mapper is a function from the names it knows to their
\* descriptors
Map(m, name) ==
    IF name \in DOMAIN m THEN [ft |-> m[name], ok |-> TRUE]
    ELSE [ft |-> NoField, ok |-> FALSE]

(***************************************************************************)
(* Filter DSL values and errors.                                           *)
(***************************************************************************)
NoFilter == [k |-> "nil"]

RangeQry == [GTE |-> NilVal, LTE |-> NilVal, GT |-> NilVal, LT |-> NilVal]

RangeFilter(range) == [k |-> "range", Range |-> range]

Term(field, value) == [k |-> "term", field |-> field, value |-> value]

Wildcard(field, value) == [k |-> "wildcard", field |-> field, pattern |-> value]

And(fl) == [k |-> "and", clauses |-> fl]

NestedFilter(filter, path) == [k |-> "nested", path |-> path, filter |-> filter]

NestedWrap(parent, filter) == NestedFilter(filter, parent.Path)

NoErr == [kind |-> "nil", text |-> <<>>]

UnsupportedType == [kind |-> "UnsupportedType", text |-> <<>>]

UnsupportedOperator == [kind |-> "UnsupportedOperator", text |-> <<>>]

InvalidNode == [kind |-> "InvalidNode", text |-> <<>>]

MissingField(name) == [kind |-> "MissingField", text |-> name]

(***************************************************************************)
(* makeRange                                                               *)
(***************************************************************************)
\* makeRange without the numeric coercion of string scalars
makeRange_NoCoercion(lhs, op, rhs) ==
    LET sc == scalar(rhs)
        pf == ParseFloat(sc.val.s)
        coerced == IF FALSE
                   THEN pf.f ELSE sc.val
        pv == PrefixAndValue(lhs, coerced)
        fieldName == IF Nested(lhs) THEN pv[1] ELSE lhs.Field
        rhsval == IF Nested(lhs) THEN pv[2] ELSE coerced
        r == CASE op = "TokenGE" ->
                    RangeFilter(fieldName :> [RangeQry EXCEPT !.GTE = rhsval])
               [] op = "TokenLE" ->
                    RangeFilter(fieldName :> [RangeQry EXCEPT !.LTE = rhsval])
               [] op = "TokenGT" ->
                    RangeFilter(fieldName :> [RangeQry EXCEPT !.GT = rhsval])
               [] op = "TokenLT" ->
                    RangeFilter(fieldName :> [RangeQry EXCEPT !.LT = rhsval])
               [] OTHER -> NoFilter
    IN  IF ~sc.ok THEN [val |-> NoFilter, err |-> UnsupportedType]
        ELSE IF r = NoFilter THEN [val |-> NoFilter, err |-> UnsupportedOperator]
        ELSE IF Nested(lhs) THEN [val |-> NestedWrap(lhs, r), err |-> NoErr]
        ELSE [val |-> r, err |-> NoErr]

\* makeRange rejecting the operator before extracting the scalar
makeRange_OperatorFirst(lhs, op, rhs) ==
    LET sc == scalar(rhs)
        pf == ParseFloat(sc.val.s)
        coerced == IF Numeric(lhs) /\ sc.val.t = "string" /\ ~pf.err
                   THEN pf.f ELSE sc.val
        pv == PrefixAndValue(lhs, coerced)
        fieldName == IF Nested(lhs) THEN pv[1] ELSE lhs.Field
        rhsval == IF Nested(lhs) THEN pv[2] ELSE coerced
        r == CASE op = "TokenGE" ->
                    RangeFilter(fieldName :> [RangeQry EXCEPT !.GTE = rhsval])
               [] op = "TokenLE" ->
                    RangeFilter(fieldName :> [RangeQry EXCEPT !.LTE = rhsval])
               [] op = "TokenGT" ->
                    RangeFilter(fieldName :> [RangeQry EXCEPT !.GT = rhsval])
               [] op = "TokenLT" ->
                    RangeFilter(fieldName :> [RangeQry EXCEPT !.LT = rhsval])
               [] OTHER -> NoFilter
    IN  IF r = NoFilter THEN [val |-> NoFilter, err |-> UnsupportedOperator]
        ELSE IF ~sc.ok THEN [val |-> NoFilter, err |-> UnsupportedType]
        ELSE IF Nested(lhs) THEN [val |-> NestedWrap(lhs, r), err |-> NoErr]
        ELSE [val |-> r, err |-> NoErr]

makeRange(lhs, op, rhs) ==
    LET sc == scalar(rhs)
        pf == ParseFloat(sc.val.s)
        coerced == IF Numeric(lhs) /\ sc.val.t = "string" /\ ~pf.err
                   THEN pf.f ELSE sc.val
        pv == PrefixAndValue(lhs, coerced)
        fieldName == IF Nested(lhs) THEN pv[1] ELSE lhs.Field
        rhsval == IF Nested(lhs) THEN pv[2] ELSE coerced
        r == CASE op = "TokenGE" ->
                    RangeFilter(fieldName :> [RangeQry EXCEPT !.GTE = rhsval])
               [] op = "TokenLE" ->
                    RangeFilter(fieldName :> [RangeQry EXCEPT !.LTE = rhsval])
               [] op = "TokenGT" ->
                    RangeFilter(fieldName :> [RangeQry EXCEPT !.GT = rhsval])
               [] op = "TokenLT" ->
                    RangeFilter(fieldName :> [RangeQry EXCEPT !.LT = rhsval])
               [] OTHER -> NoFilter
    IN  IF ~sc.ok THEN [val |-> NoFilter, err |-> UnsupportedType]
        ELSE IF r = NoFilter THEN [val |-> NoFilter, err |-> UnsupportedOperator]
        ELSE IF Nested(lhs) THEN [val |-> NestedWrap(lhs, r), err |-> NoErr]
        ELSE [val |-> r, err |-> NoErr]

(***************************************************************************)
(* makeBetween                                                             *)
(***************************************************************************)
\* makeBetween with the envelope located at the field name instead of the path
makeBetween_FieldAsPath(lhs, lower, upper) ==
    LET lr == RangeFilter(lhs.Field :> [RangeQry EXCEPT !.GT = lower])
        ur == RangeFilter(lhs.Field :> [RangeQry EXCEPT !.LT = upper])
        fl == <<lr, ur>>
    IN  IF Nested(lhs)
        THEN [val |-> NestedFilter(And(Append(fl, Term(<<"k">>, StrVal(lhs.Field)))),
                                   lhs.Field),
              err |-> NoErr]
        ELSE [val |-> And(fl), err |-> NoErr]

\* makeBetween qualifying key and bounds through PrefixAndValue when nested
makeBetween_Qualified(lhs, lower, upper) ==
    LET lo == IF Nested(lhs) THEN PrefixAndValue(lhs, lower) ELSE <<lhs.Field, lower>>
        up == IF Nested(lhs) THEN PrefixAndValue(lhs, upper) ELSE <<lhs.Field, upper>>
        lr == RangeFilter(lo[1] :> [RangeQry EXCEPT !.GT = lo[2]])
        ur == RangeFilter(up[1] :> [RangeQry EXCEPT !.LT = up[2]])
        fl == <<lr, ur>>
    IN  IF Nested(lhs)
        THEN [val |-> NestedFilter(And(Append(fl, Term(<<"k">>, StrVal(lhs.Field)))),
                                   lhs.Path),
              err |-> NoErr]
        ELSE [val |-> And(fl), err |-> NoErr]

makeBetween(lhs, lower, upper) ==
    LET lr == RangeFilter(lhs.Field :> [RangeQry EXCEPT !.GT = lower])
        ur == RangeFilter(lhs.Field :> [RangeQry EXCEPT !.LT = upper])
        fl == <<lr, ur>>
    IN  IF Nested(lhs)
        THEN [val |-> NestedFilter(And(Append(fl, Term(<<"k">>, StrVal(lhs.Field)))),
                                   lhs.Path),
              err |-> NoErr]
        ELSE [val |-> And(fl), err |-> NoErr]

(***************************************************************************)
(* makeWildcard                                                            *)
(***************************************************************************)
\* makeWildcard with the disambiguating term ahead of the wildcard clause
makeWildcard_TermFirst(lhs, value) ==
    LET fieldName == IF Nested(lhs) THEN PathAndPrefix(lhs, value) ELSE lhs.Field
        wc == Wildcard(fieldName, value)
    IN  IF Nested(lhs)
        THEN [val |-> NestedFilter(
                          And(<<Term(lhs.Path \o <<".", "k">>, StrVal(lhs.Field)), wc>>),
                          lhs.Path),
              err |-> NoErr]
        ELSE [val |-> wc, err |-> NoErr]

makeWildcard(lhs, value) ==
    LET fieldName == IF Nested(lhs) THEN PathAndPrefix(lhs, value) ELSE lhs.Field
        wc == Wildcard(fieldName, value)
    IN  IF Nested(lhs)
        THEN [val |-> NestedFilter(
                          And(<<wc, Term(lhs.Path \o <<".", "k">>, StrVal(lhs.Field))>>),
                          lhs.Path),
              err |-> NoErr]
        ELSE [val |-> wc, err |-> NoErr]

(***************************************************************************)
(* esName                                                                  *)
(***************************************************************************)
RECURSIVE SplitN(_, _, _)
\* strings.SplitN(s, sep, n) for a one-character sep and n >= 1
SplitN(s, sep, n) ==
    LET at == {i \in 1..Len(s) : s[i] = sep}
        first == CHOOSE i \in at : \A j \in at : i <= j
    IN  IF n = 1 \/ at = {} THEN <<s>>
        ELSE <<SubSeq(s, 1, first - 1)>> \o SplitN(SubSeq(s, first + 1, Len(s)), sep, n - 1)

\* esName trying the dotted prefix only when the identifier is not namespaced
esName_LegacyUnlessLeftRight(m, n) ==
    LET primary == Map(m, n.Text)
        orig == Map(m, OriginalText(n))
        parts == SplitN(n.Text, ".", 2)
        legacy == Map(m, parts[1])
        tried2 == IF HasLeftRight(n) THEN <<n.Text, OriginalText(n)>> ELSE <<n.Text>>
    IN  IF n.kind # "IdentityNode"
        THEN [ft |-> NoField, err |-> InvalidNode, maps |-> <<>>]
        ELSE IF primary.ok
        THEN [ft |-> primary.ft, err |-> NoErr, maps |-> <<n.Text>>]
        ELSE IF HasLeftRight(n)
        THEN IF orig.ok
             THEN [ft |-> orig.ft, err |-> NoErr, maps |-> tried2]
             ELSE [ft |-> NoField, err |-> MissingField(OriginalText(n)),
                   maps |-> tried2]
        ELSE IF Len(parts) = 2 /\ legacy.ok
        THEN [ft |-> legacy.ft, err |-> NoErr, maps |-> Append(tried2, parts[1])]
        ELSE [ft |-> NoField, err |-> MissingField(OriginalText(n)),
              maps |-> IF Len(parts) = 2 THEN Append(tried2, parts[1]) ELSE tried2]

\* esName reporting the normalized text in MissingField
esName_MissingText(m, n) ==
    LET primary == Map(m, n.Text)
        orig == Map(m, OriginalText(n))
        parts == SplitN(n.Text, ".", 2)
        legacy == Map(m, parts[1])
        tried2 == IF HasLeftRight(n) THEN <<n.Text, OriginalText(n)>> ELSE <<n.Text>>
        tried3 == IF Len(parts) = 2 THEN Append(tried2, parts[1]) ELSE tried2
    IN  IF n.kind # "IdentityNode"
        THEN [ft |-> NoField, err |-> InvalidNode, maps |-> <<>>]
        ELSE IF primary.ok
        THEN [ft |-> primary.ft, err |-> NoErr, maps |-> <<n.Text>>]
        ELSE IF HasLeftRight(n) /\ orig.ok
        THEN [ft |-> orig.ft, err |-> NoErr, maps |-> tried2]
        ELSE IF Len(parts) = 2 /\ legacy.ok
        THEN [ft |-> legacy.ft, err |-> NoErr, maps |-> tried3]
        ELSE [ft |-> NoField, err |-> MissingField(n.Text), maps |-> tried3]

\* The result carries, besides the descriptor and the error, the names passed
\* to m.Map in call order.
esName(m, n) ==
    LET primary == Map(m, n.Text)
        orig == Map(m, OriginalText(n))
        parts == SplitN(n.Text, ".", 2)
        legacy == Map(m, parts[1])
        tried2 == IF HasLeftRight(n) THEN <<n.Text, OriginalText(n)>> ELSE <<n.Text>>
        tried3 == IF Len(parts) = 2 THEN Append(tried2, parts[1]) ELSE tried2
    IN  IF n.kind # "IdentityNode"
        THEN [ft |-> NoField, err |-> InvalidNode, maps |-> <<>>]
        ELSE IF primary.ok
        THEN [ft |-> primary.ft, err |-> NoErr, maps |-> <<n.Text>>]
        ELSE IF HasLeftRight(n) /\ orig.ok
        THEN [ft |-> orig.ft, err |-> NoErr, maps |-> tried2]
        ELSE IF Len(parts) = 2 /\ legacy.ok
        THEN [ft |-> legacy.ft, err |-> NoErr, maps |-> tried3]
        ELSE [ft |-> NoField, err |-> MissingField(OriginalText(n)), maps |-> tried3]

(***************************************************************************)
(* makeTimeWindowQuery                                                     *)
(***************************************************************************)
\* makeTimeWindowQuery with the bounds of the enter and exit ranges exchanged
makeTimeWindowQuery_BoundsSwapped(lhs, threshold, window, ts) ==
    LET fl == << Term(lhs.Field \o <<".", "t", "h", "r", "e", "s", "h", "o", "l", "d">>,
                      StrVal(FormatInt(threshold))),
                 Term(lhs.Field \o <<".", "w", "i", "n", "d", "o", "w">>,
                      StrVal(FormatInt(window))),
                 RangeFilter((lhs.Field \o <<".", "e", "n", "t", "e", "r">>)
                                 :> [RangeQry EXCEPT !.GTE = IntVal(ts)]),
                 RangeFilter((lhs.Field \o <<".", "e", "x", "i", "t">>)
                                 :> [RangeQry EXCEPT !.LTE = IntVal(ts)]) >>
    IN  [val |-> NestedFilter(And(fl), lhs.Field), err |-> NoErr]

makeTimeWindowQuery(lhs, threshold, window, ts) ==
    LET fl == << Term(lhs.Field \o <<".", "t", "h", "r", "e", "s", "h", "o", "l", "d">>,
                      StrVal(FormatInt(threshold))),
                 Term(lhs.Field \o <<".", "w", "i", "n", "d", "o", "w">>,
                      StrVal(FormatInt(window))),
                 RangeFilter((lhs.Field \o <<".", "e", "n", "t", "e", "r">>)
                                 :> [RangeQry EXCEPT !.LTE = IntVal(ts)]),
                 RangeFilter((lhs.Field \o <<".", "e", "x", "i", "t">>)
                                 :> [RangeQry EXCEPT !.GTE = IntVal(ts)]) >>
    IN  [val |-> NestedFilter(And(fl), lhs.Field), err |-> NoErr]

(***************************************************************************)
(* Input domains.                                                          *)
(***************************************************************************)
Ints == (0 - MaxNum)..MaxNum

Floats == {FloatVal(m, e) : m \in Ints, e \in 0..MaxDec}

ValStrings ==
    SeqsUpTo({"1", ".", "x"}, MaxStrLen)
        \cup BoolLiterals
        \cup { <<"-", "1">>, <<"t", "R", "u", "E">>, <<"y", "e", "s">>, <<"h", "e", "l", "*">> }

IdentTexts == BoolLiterals \cup { <<"a">>, <<"t", "R", "u", "E">>, <<"y", "e", "s">>, <<>> }

Values ==
    {BoolValue(b) : b \in BOOLEAN}
        \cup {IntValue(i) : i \in Ints}
        \cup {StringValue(t) : t \in ValStrings}
        \cup {TimeValue(i) : i \in 0..MaxNum}
        \cup {NumberValue(f, a) : f \in Floats, a \in BOOLEAN}
        \cup {OtherValue(ty) : ty \in {"NilType", "StringsType", "MapValueType"}}

ScalarNodes ==
    {StringNode(t) : t \in ValStrings}
        \cup {NumberNode(TRUE, i, FloatVal(i, 0)) : i \in Ints}
        \cup {NumberNode(FALSE, 0, f) : f \in Floats}
        \cup {ValueNode(v) : v \in Values}
        \cup {IdentityNode(t, t, lr) : t \in IdentTexts, lr \in BOOLEAN}
        \cup {OtherNode(k) : k \in {"NullNode", "FuncNode", "BinaryNode", "ArrayNode"}}

FieldTypes ==
    {FieldType(f, p, ty) : f \in {<<"f">>, <<"g">>},
                           p \in {<<>>, <<"f">>, <<"p">>},
                           ty \in {"StringType", "IntType", "NumberType", "MapValueType"}}

Tokens == {"TokenGE", "TokenLE", "TokenGT", "TokenLT", "TokenEqual", "TokenNE"}

BoundValues == {IntVal(i) : i \in Ints} \cup Floats \cup {StrVal(<<"1">>), NilVal}

NameChars == {"a", "."}

MapKeys == SeqsUpTo(NameChars, MaxKeyLen)

Mappers == {[k \in H |-> FieldType(k, <<>>, "StringType")] : H \in SUBSET MapKeys}

Idents ==
    {IdentityNode(t, o, lr) : t \in SeqsUpTo(NameChars, MaxTextLen),
                              o \in MapKeys, lr \in BOOLEAN}

NonIdents ==
    {StringNode(<<"a">>), NumberNode(TRUE, 1, FloatVal(1, 0)),
     ValueNode(StringValue(<<"a">>)), OtherNode("FuncNode")}

(***************************************************************************)
(* The state machine: one invocation is drawn, then executed.              *)
(***************************************************************************)
Pending == [pending |-> TRUE]

Init ==
    /\ pc = "ready"
    /\ ret = Pending
    /\ lookups = <<>>
    /\ \/ \E n \in ScalarNodes : call = [fn |-> "scalar", node |-> n]
       \/ \E lhs \in FieldTypes, op \in Tokens, rhs \in ScalarNodes :
              call = [fn |-> "makeRange", lhs |-> lhs, op |-> op, rhs |-> rhs]
       \/ \E lhs \in FieldTypes, lo \in BoundValues, up \in BoundValues :
              call = [fn |-> "makeBetween", lhs |-> lhs, lower |-> lo, upper |-> up]
       \/ \E lhs \in FieldTypes, v \in ValStrings :
              call = [fn |-> "makeWildcard", lhs |-> lhs, value |-> v]
       \/ \E m \in Mappers, n \in Idents \cup NonIdents :
              call = [fn |-> "esName", m |-> m, n |-> n]
       \/ \E lhs \in FieldTypes, th \in Ints, w \in Ints, ts \in Ints :
              call = [fn |-> "makeTimeWindowQuery", lhs |-> lhs, threshold |-> th,
                      window |-> w, ts |-> ts]

Scalar ==
    /\ pc = "ready" /\ call.fn = "scalar"
    /\ ret' = scalar(call.node)
    /\ pc' = "done"
    /\ UNCHANGED <<call, lookups>>

MakeRange ==
    /\ pc = "ready" /\ call.fn = "makeRange"
    /\ ret' = makeRange(call.lhs, call.op, call.rhs)
    /\ pc' = "done"
    /\ UNCHANGED <<call, lookups>>

MakeBetween ==
    /\ pc = "ready" /\ call.fn = "makeBetween"
    /\ ret' = makeBetween(call.lhs, call.lower, call.upper)
    /\ pc' = "done"
    /\ UNCHANGED <<call, lookups>>

MakeWildcard ==
    /\ pc = "ready" /\ call.fn = "makeWildcard"
    /\ ret' = makeWildcard(call.lhs, call.value)
    /\ pc' = "done"
    /\ UNCHANGED <<call, lookups>>

EsName ==
    /\ pc = "ready" /\ call.fn = "esName"
    /\ LET r == esName(call.m, call.n)
       IN  /\ ret' = [ft |-> r.ft, err |-> r.err]
           /\ lookups' = r.maps
    /\ pc' = "done"
    /\ UNCHANGED call

MakeTimeWindowQuery ==
    /\ pc = "ready" /\ call.fn = "makeTimeWindowQuery"
    /\ ret' = makeTimeWindowQuery(call.lhs, call.threshold, call.window, call.ts)
    /\ pc' = "done"
    /\ UNCHANGED <<call, lookups>>

Next ==
    \/ Scalar
    \/ MakeRange
    \/ MakeBetween
    \/ MakeWildcard
    \/ EsName
    \/ MakeTimeWindowQuery

Spec == Init /\ [][Next]_vars

Done(fn) == pc = "done" /\ call.fn = fn

(***************************************************************************)
(* Properties.                                                             *)
(***************************************************************************)
RECURSIVE NestedCount(_)
\* the number of Nested envelopes in a filter value
NestedCount(f) ==
    CASE f.k = "nested" -> 1 + NestedCount(f.filter)
      [] f.k = "and" ->
            Cardinality({i \in 1..Len(f.clauses) : NestedCount(f.clauses[i]) > 0})
      [] OTHER -> 0

Builders == {"makeRange", "makeBetween", "makeWildcard", "makeTimeWindowQuery"}

PathBuilders == {"makeRange", "makeBetween", "makeWildcard"}

OneEnvelope(path) ==
    /\ ret.val.k = "nested"
    /\ NestedCount(ret.val) = 1
    /\ ret.val.path = path

\* C1 as stated: for a nested descriptor every builder's successful result is
\* wrapped in exactly one Nested envelope whose path is the descriptor's
\* Path, also when Path differs from Field.
C1_AsStated ==
    (pc = "done" /\ call.fn \in Builders /\ Nested(call.lhs) /\ ret.err = NoErr)
        => OneEnvelope(call.lhs.Path)

\* C1 amended: for a nested descriptor a successful makeRange, makeBetween or
\* makeWildcard result is wrapped in exactly one Nested envelope whose path
\* is the descriptor's Path; a makeTimeWindowQuery result is wrapped in
\* exactly one Nested envelope whose path is the descriptor's Field.
C1_EnvelopePath ==
    /\ (pc = "done" /\ call.fn \in PathBuilders /\ Nested(call.lhs) /\ ret.err = NoErr)
            => OneEnvelope(call.lhs.Path)
    /\ (pc = "done" /\ call.fn = "makeTimeWindowQuery" /\ Nested(call.lhs))
            => ret.err = NoErr /\ OneEnvelope(call.lhs.Field)

C1_Witness ==
    /\ Done("makeTimeWindowQuery")
    /\ Nested(call.lhs)
    /\ call.lhs.Path # call.lhs.Field
    /\ ret.val.k = "nested"
    /\ ret.val.path = call.lhs.Field

(***************************************************************************)
(* esName: the lookups as the resolution rules state them.                 *)
(***************************************************************************)
HasDot(s) == \E i \in 1..Len(s) : s[i] = "."

\* the text before the first '.'
BeforeDot(s) ==
    LET i == CHOOSE j \in 1..Len(s) : s[j] = "." /\ \A h \in 1..(j - 1) : s[h] # "."
    IN  SubSeq(s, 1, i - 1)

PrimaryHit == call.n.Text \in DOMAIN call.m

OriginalHit == call.n.left /\ call.n.original \in DOMAIN call.m

LegacyHit == HasDot(call.n.Text) /\ BeforeDot(call.n.Text) \in DOMAIN call.m

OriginalTried == IF call.n.left THEN <<call.n.original>> ELSE <<>>

ResolvedIdent == Done("esName") /\ call.n.kind = "IdentityNode"

\* C2: esName on an identifier looks up Text, then (only when HasLeftRight)
\* OriginalText, then (only when Text splits in two on its first '.', and
\* whether or not HasLeftRight) the first part; it returns the descriptor of
\* the first lookup that hits and makes no lookup after it.
C2_LookupOrder ==
    ResolvedIdent =>
        /\ PrimaryHit =>
              /\ ret.ft = call.m[call.n.Text]
              /\ lookups = <<call.n.Text>>
        /\ (~PrimaryHit /\ OriginalHit) =>
              /\ ret.ft = call.m[call.n.original]
              /\ lookups = <<call.n.Text, call.n.original>>
        /\ (~PrimaryHit /\ ~OriginalHit /\ LegacyHit) =>
              /\ ret.ft = call.m[BeforeDot(call.n.Text)]
              /\ lookups = <<call.n.Text>> \o OriginalTried
                               \o <<BeforeDot(call.n.Text)>>
        /\ (~PrimaryHit /\ ~OriginalHit /\ ~LegacyHit) =>
              lookups = <<call.n.Text>> \o OriginalTried
                            \o (IF HasDot(call.n.Text)
                                THEN <<BeforeDot(call.n.Text)>> ELSE <<>>)

\* a namespaced identifier resolved by the dotted prefix after two misses,
\* with a mapper that knows the prefix only
C2_Witness ==
    /\ ResolvedIdent
    /\ call.n.left
    /\ Len(lookups) = 3
    /\ ret.err = NoErr
    /\ ret.ft = call.m[BeforeDot(call.n.Text)]
    /\ lookups[2] # lookups[3]

\* C3: esName fails with InvalidNode, without a descriptor and without any
\* lookup, when the node is not an identifier; on an identifier it fails with
\* MissingField exactly when every applicable lookup misses, the error then
\* carries OriginalText; otherwise it returns a descriptor and no error.
C3_Errors ==
    /\ (Done("esName") /\ call.n.kind # "IdentityNode") =>
            /\ ret.err = InvalidNode
            /\ ret.ft = NoField
            /\ lookups = <<>>
    /\ ResolvedIdent =>
            /\ ret.err.kind \in {"nil", "MissingField"}
            /\ ret.err.kind = "MissingField"
                  <=> (~PrimaryHit /\ ~OriginalHit /\ ~LegacyHit)
            /\ ret.err.kind = "MissingField" =>
                  /\ ret.err.text = call.n.original
                  /\ ret.ft = NoField
            /\ ret.err.kind = "nil" =>
                  /\ ret.err = NoErr
                  /\ \E k \in DOMAIN call.m : ret.ft = call.m[k]

\* every lookup missed, and the original text is neither Text nor its prefix
C3_Witness ==
    /\ ResolvedIdent
    /\ ret.err.kind = "MissingField"
    /\ Len(lookups) = 3
    /\ call.n.original # call.n.Text
    /\ call.n.original # BeforeDot(call.n.Text)
    /\ ret.err.text = call.n.original

(***************************************************************************)
(* Expected shapes of the builders' results.                               *)
(***************************************************************************)
\* a RangeFilter with the single key field and the single bound populated
OnlyGT(f, field, v) ==
    f.k = "range" /\ DOMAIN f.Range = {field}
        /\ f.Range[field] = [GTE |-> NilVal, LTE |-> NilVal, GT |-> v, LT |-> NilVal]

OnlyLT(f, field, v) ==
    f.k = "range" /\ DOMAIN f.Range = {field}
        /\ f.Range[field] = [GTE |-> NilVal, LTE |-> NilVal, GT |-> NilVal, LT |-> v]

OnlyGTE(f, field, v) ==
    f.k = "range" /\ DOMAIN f.Range = {field}
        /\ f.Range[field] = [GTE |-> v, LTE |-> NilVal, GT |-> NilVal, LT |-> NilVal]

OnlyLTE(f, field, v) ==
    f.k = "range" /\ DOMAIN f.Range = {field}
        /\ f.Range[field] = [GTE |-> NilVal, LTE |-> v, GT |-> NilVal, LT |-> NilVal]

IsTerm(f, field, v) == f.k = "term" /\ f.field = field /\ f.value = v

C5_TimeWindow ==
    Done("makeTimeWindowQuery") =>
        LET f == call.lhs.Field
            c == ret.val.filter.clauses
        IN  /\ ret.err = NoErr
            /\ ret.val.k = "nested"
            /\ ret.val.path = f
            /\ ret.val.filter.k = "and"
            /\ Len(c) = 4
            /\ IsTerm(c[1], f \o <<".", "t", "h", "r", "e", "s", "h", "o", "l", "d">>,
                      StrVal(FormatInt(call.threshold)))
            /\ IsTerm(c[2], f \o <<".", "w", "i", "n", "d", "o", "w">>,
                      StrVal(FormatInt(call.window)))
            /\ OnlyLTE(c[3], f \o <<".", "e", "n", "t", "e", "r">>, IntVal(call.ts))
            /\ OnlyGTE(c[4], f \o <<".", "e", "x", "i", "t">>, IntVal(call.ts))

\* a non-nested descriptor, a negative threshold, distinct arguments
C5_Witness ==
    /\ Done("makeTimeWindowQuery")
    /\ ~Nested(call.lhs)
    /\ call.threshold < 0
    /\ call.window > call.ts /\ call.ts > call.threshold
    /\ ret.val.filter.clauses[1].value = StrVal(<<"-">> \o FormatInt(0 - call.threshold))

\* C7: makeWildcard never fails; not nested it returns the bare
\* Wildcard{lhs.Field, pattern}; nested it returns Nested{lhs.Path} around
\* And[Wildcard{lhs.PathAndPrefix(pattern), pattern},
\* Term{lhs.Path.k, lhs.Field}]; the pattern is the input pattern.
C7_Wildcard ==
    Done("makeWildcard") =>
        /\ ret.err = NoErr
        /\ ~Nested(call.lhs) =>
              /\ ret.val.k = "wildcard"
              /\ ret.val.field = call.lhs.Field
              /\ ret.val.pattern = call.value
        /\ Nested(call.lhs) =>
              /\ ret.val.k = "nested"
              /\ ret.val.path = call.lhs.Path
              /\ ret.val.filter.k = "and"
              /\ Len(ret.val.filter.clauses) = 2
              /\ ret.val.filter.clauses[1].k = "wildcard"
              /\ ret.val.filter.clauses[1].field = PathAndPrefix(call.lhs, call.value)
              /\ ret.val.filter.clauses[1].pattern = call.value
              /\ IsTerm(ret.val.filter.clauses[2], call.lhs.Path \o <<".", "k">>,
                        StrVal(call.lhs.Field))

\* a nested descriptor whose qualified field depends on the pattern
C7_Witness ==
    /\ Done("makeWildcard")
    /\ Nested(call.lhs)
    /\ call.lhs.Type = "MapValueType"
    /\ call.lhs.Path # call.lhs.Field
    /\ call.value # <<>>
    /\ ret.val.filter.clauses[1].field # call.lhs.Field
    /\ ret.val.filter.clauses[1].pattern = call.value

(***************************************************************************)
(* scalar and makeRange.                                                   *)
(***************************************************************************)
TrueFalse == { <<"t", "r", "u", "e">>, <<"f", "a", "l", "s", "e">> }

ParsesAsFloat(t) == ~ParseFloat(t).err

StringLeafText(n) ==
    IF n.kind = "StringNode" THEN n.Text ELSE n.Value.s

IsStringLeaf(n) ==
    n.kind = "StringNode" \/ (n.kind = "ValueNode" /\ n.Value.Type = "StringType")

\* a right-hand node that denotes a number, as C6 lists them
DenotesNumber(n) ==
    \/ n.kind = "NumberNode"
    \/ n.kind = "ValueNode" /\ n.Value.Type \in {"IntType", "NumberType"}
    \/ IsStringLeaf(n) /\ ParsesAsFloat(StringLeafText(n))

\* the same, a number-typed value being required to expose Float()
DenotesNumberWithAccessor(n) ==
    /\ DenotesNumber(n)
    /\ (n.kind = "ValueNode" /\ n.Value.Type = "NumberType") => n.Value.floatval

FlatGE == Done("makeRange") /\ ~Nested(call.lhs) /\ call.op = "TokenGE"

BareNumericGTE ==
    /\ ret.err = NoErr
    /\ ret.val.k = "range"
    /\ DOMAIN ret.val.Range = {call.lhs.Field}
    /\ ret.val.Range[call.lhs.Field].GTE.t \in {"int64", "float64"}
    /\ ret.val.Range[call.lhs.Field].LTE = NilVal
    /\ ret.val.Range[call.lhs.Field].GT = NilVal
    /\ ret.val.Range[call.lhs.Field].LT = NilVal

StringStaysString ==
    (FlatGE /\ ~Numeric(call.lhs) /\ IsStringLeaf(call.rhs)) =>
        /\ ret.err = NoErr
        /\ OnlyGTE(ret.val, call.lhs.Field, StrVal(StringLeafText(call.rhs)))

\* C6 as stated: for a non-nested numeric field and any right-hand node that
\* denotes a number (number-typed values included without condition),
\* makeRange with >= returns a bare RangeFilter keyed on lhs.Field whose only
\* bound is a numeric-typed GTE; on a non-numeric field a string stays a
\* string.
C6_AsStated ==
    /\ (FlatGE /\ Numeric(call.lhs) /\ DenotesNumber(call.rhs)) => BareNumericGTE
    /\ StringStaysString

\* C6 amended: the same for a right-hand node that denotes a number, where a
\* number-typed TypedValueLeaf counts only if its value exposes a float
\* accessor (without one makeRange fails with UnsupportedType).
C6_NumericGTE ==
    /\ (FlatGE /\ Numeric(call.lhs) /\ DenotesNumberWithAccessor(call.rhs))
            => BareNumericGTE
    /\ (FlatGE /\ Numeric(call.lhs) /\ call.rhs.kind = "ValueNode"
            /\ call.rhs.Value.Type = "NumberType" /\ ~call.rhs.Value.floatval)
            => ret = [val |-> NoFilter, err |-> UnsupportedType]
    /\ StringStaysString

\* an integer-typed value, rendered as text by scalar, is compared as a float
C6_Witness ==
    /\ FlatGE
    /\ Numeric(call.lhs)
    /\ call.rhs.kind = "ValueNode"
    /\ call.rhs.Value.Type = "IntType"
    /\ call.rhs.Value.i < 0
    /\ ret.val.Range[call.lhs.Field].GTE = FloatVal(call.rhs.Value.i, 0)

C9_AsStated ==
    (Done("scalar") /\ call.node.kind = "IdentityNode") =>
        /\ ret.ok <=> call.node.Text \in TrueFalse
        /\ ret.ok => ret.val = StrVal(call.node.Text)

\* C9 amended: scalar of an IdentifierLeaf is (text, TRUE) exactly for the
\* texts strconv.ParseBool accepts (1, t, T, TRUE, true, True, 0, f, F, FALSE,
\* false, False), and ok = FALSE for every other text.
C9_BoolIdent ==
    (Done("scalar") /\ call.node.kind = "IdentityNode") =>
        /\ ret.ok <=> call.node.Text \in BoolLiterals
        /\ ret.ok => ret.val = StrVal(call.node.Text)

\* the identifier t is taken as a scalar
C9_Witness ==
    /\ Done("scalar")
    /\ call.node.kind = "IdentityNode"
    /\ call.node.Text = <<"t">>
    /\ ret = [val |-> StrVal(<<"t">>), ok |-> TRUE]

RangeOps == {"TokenGE", "TokenLE", "TokenGT", "TokenLT"}

\* the scalar makeRange compares against: a string is replaced by the float
\* it parses to when the field is numeric
Coerced(lhs, v) ==
    IF Numeric(lhs) /\ v.t = "string" /\ ParsesAsFloat(v.s)
    THEN ParseFloat(v.s).f ELSE v

\* C10: with an extractable scalar and an operator among >=, <=, >, <,
\* makeRange returns a RangeFilter with one key and one populated bound, the
\* one the operator selects; nested, key and value are
\* lhs.PrefixAndValue(value), else lhs.Field and the (coerced) scalar.  It
\* fails with UnsupportedType when extraction fails (also when the operator
\* is unsupported too), with UnsupportedOperator for any other operator, and
\* returns no filter with either error.
C10_Range ==
    Done("makeRange") =>
        LET sc == scalar(call.rhs)
            v == Coerced(call.lhs, sc.val)
            key == IF Nested(call.lhs) THEN PrefixAndValue(call.lhs, v)[1]
                   ELSE call.lhs.Field
            val == IF Nested(call.lhs) THEN PrefixAndValue(call.lhs, v)[2] ELSE v
            r == IF Nested(call.lhs) THEN ret.val.filter ELSE ret.val
        IN  /\ ~sc.ok => ret = [val |-> NoFilter, err |-> UnsupportedType]
            /\ (sc.ok /\ call.op \notin RangeOps) =>
                  ret = [val |-> NoFilter, err |-> UnsupportedOperator]
            /\ (sc.ok /\ call.op \in RangeOps) =>
                  /\ ret.err = NoErr
                  /\ val # NilVal
                  /\ call.op = "TokenGE" => OnlyGTE(r, key, val)
                  /\ call.op = "TokenLE" => OnlyLTE(r, key, val)
                  /\ call.op = "TokenGT" => OnlyGT(r, key, val)
                  /\ call.op = "TokenLT" => OnlyLT(r, key, val)

\* both failure conditions at once
C10_Witness ==
    /\ Done("makeRange")
    /\ ~scalar(call.rhs).ok
    /\ call.op \notin RangeOps
    /\ Nested(call.lhs)
    /\ ret = [val |-> NoFilter, err |-> UnsupportedType]

====
